---- MODULE Spec2Model ----
(***************************************************************************)
(* Model of core/ocr_processor.py: class OCRProcessor.                     *)
(*                                                                         *)
(* The process state is the module global pytesseract.tesseract_cmd, the   *)
(* OCRProcessor instances built so far (they hold no attributes), the set  *)
(* of candidate install paths that exist, the temporary directories that   *)
(* exist, and the position of the extraction call in flight.  What the     *)
(* file, the Poppler directory, the rasterizer and the OCR engine answer   *)
(* is chosen by the environment at the moment the code asks (logging is    *)
(* taken not to raise).  Strings are sequences of one-character            *)
(* strings.  `log' is the sequence of levels logged by the call in flight  *)
(* (setupLog is what the latest constructor logged); `trace' records, in   *)
(* order, what that call did to its collaborators and what they answered.  *)
(***************************************************************************)
EXTENDS Integers, Sequences, FiniteSets, TLC

VARIABLES candExists, tesseract_cmd, built, setupLog,
          tempDirs, tmp,
          pc, op, pathStr, i, images, all_text, ocrTexts,
          result, outcome, log, trace

vars == <<candExists, tesseract_cmd, built, setupLog,
          tempDirs, tmp,
          pc, op, pathStr, i, images, all_text, ocrTexts,
          result, outcome, log, trace>>

procVars == <<candExists, tesseract_cmd, built, setupLog>>

----------------------------------------------------------------------------
(* Bounds of the model *)

MaxPages == 2
MaxInst == 2

Instances == 1..MaxInst

(* OCR engine outputs tried for a page or a zone *)
OcrOutputs == { <<>>, <<"a">>, <<" ", "b", "\n">> }

----------------------------------------------------------------------------
(* Program constants *)

max_retries == 3

(* indices into tesseract_paths; 0 is pytesseract's built-in default *)
tesseract_paths == <<1, 2, 3>>

(* the argument of time.sleep *)
SleepSeconds == 1

----------------------------------------------------------------------------
(* Strings *)

DigitChars == <<"0", "1", "2", "3", "4", "5", "6", "7", "8", "9">>

RECURSIVE Format(_)
(* str(n) of a non-negative integer, as an f-string renders it *)
Format(n) ==
    IF n < 10 THEN <<DigitChars[n + 1]>>
    ELSE Format(n \div 10) \o <<DigitChars[(n % 10) + 1]>>

(* the block numbered with the enumerate index itself *)
PageBlock_zero(idx, text) ==
    <<"-", "-", "-", " ", "S", "e", "i", "t", "e", " ">> \o Format(idx)
        \o <<" ", "-", "-", "-", "\n">> \o text

(* f"--- Seite {i+1} ---\n{text}" for the enumerate index idx *)
PageBlock(idx, text) ==
    <<"-", "-", "-", " ", "S", "e", "i", "t", "e", " ">> \o Format(idx + 1)
        \o <<" ", "-", "-", "-", "\n">> \o text

RECURSIVE Join(_, _)
(* sep.join(parts) *)
Join(sep, parts) ==
    IF parts = <<>> THEN <<>>
    ELSE IF Len(parts) = 1 THEN parts[1]
    ELSE parts[1] \o sep \o Join(sep, Tail(parts))

JoinPages(parts) == Join(<<"\n", "\n">>, parts)

Whitespace == {" ", "\n", "\t", "\r"}

RECURSIVE LStrip(_)
LStrip(s) ==
    IF s # <<>> /\ s[1] \in Whitespace THEN LStrip(Tail(s)) ELSE s

RECURSIVE RStrip(_)
RStrip(s) ==
    IF s # <<>> /\ s[Len(s)] \in Whitespace
    THEN RStrip(SubSeq(s, 1, Len(s) - 1)) ELSE s

(* str.strip() *)
Strip(s) == RStrip(LStrip(s))

----------------------------------------------------------------------------
(* Events of the trace and entries of the log *)

(* the engine field of an event that is not an OCR invocation *)
NoEngine == 0 - 1

Ev(e, a) == [ev |-> e, arg |-> a, eng |-> NoEngine]

EvOcr(e, a, g) == [ev |-> e, arg |-> a, eng |-> g]

Emit(levels) == log \o levels

----------------------------------------------------------------------------
(* Construction: OCRProcessor.__init__ / _setup_tesseract *)

(* pytesseract's built-in command "tesseract", resolved through PATH *)
DefaultCmd == 0

Found(exists) == { k \in 1..Len(tesseract_paths) : tesseract_paths[k] \in exists }

FirstFound(exists) ==
    tesseract_paths[CHOOSE k \in Found(exists) : \A m \in Found(exists) : k <= m]

(* the value of pytesseract.pytesseract.tesseract_cmd after the probe loop *)
SetupTesseract(cmd, exists) ==
    IF Found(exists) # {} THEN FirstFound(exists) ELSE cmd

SetupLog(exists) ==
    IF Found(exists) # {} THEN "debug" ELSE "warning"

Construct(inst) ==
    /\ inst \notin built
    /\ \A other \in Instances : other < inst => other \in built
    /\ built' = built \cup {inst}
    /\ tesseract_cmd' = SetupTesseract(tesseract_cmd, candExists)
    /\ setupLog' = SetupLog(candExists)
    /\ UNCHANGED <<candExists, tempDirs, tmp, pc, op, pathStr, i,
                   images, all_text, ocrTexts, result, outcome, log, trace>>

(* an OCR installation appears at, or disappears from, a candidate path *)
EnvInstall(p) ==
    /\ candExists' = IF p \in candExists THEN candExists \ {p}
                     ELSE candExists \cup {p}
    /\ UNCHANGED <<tesseract_cmd, built, setupLog, tempDirs, tmp, pc, op,
                   pathStr, i, images, all_text, ocrTexts, result,
                   outcome, log, trace>>

----------------------------------------------------------------------------
(* Pieces of the two operations *)

(* the missing file reported as a warning *)
NotFoundLog_warn == <<"warning">>

(* the diagnostics of the early return for a missing file *)
NotFoundLog == <<"error">>

ZoneNotFoundLog == <<"error">>

(* a bad header treated like a failed open *)
OpenOutcome_retry(raises, isPdf) ==
    IF raises \/ ~isPdf THEN "raise" ELSE "ok"

(* what one pass of the body of the retry loop does:
   "raise" - open or read raised, "invalid" - header # b'%PDF', "ok" - break *)
OpenOutcome(raises, isPdf) ==
    IF raises THEN "raise" ELSE IF isPdf THEN "ok" ELSE "invalid"

(* waiting after the last attempt too *)
ShouldWait_always(idx) == idx < max_retries

(* `if i < max_retries - 1' in the except clause of the retry loop *)
ShouldWait(idx) == idx < max_retries - 1

(* the Poppler check left out *)
PopplerMissing_never(exists) == FALSE

(* `if not os.path.exists(poppler_path)' *)
PopplerMissing(exists) == ~exists

(* the directory left behind *)
TempDirExit_leak(dirs, id) == dirs

(* leaving `with tempfile.TemporaryDirectory()' removes the directory *)
TempDirExit(dirs, id) == dirs \ {id}

(* the pages read so far returned from the except clause *)
HandlerResult_partial(parts) == JoinPages(parts)

(* the value returned by the except clause of extract_text_from_pdf *)
HandlerResult(parts) == <<>>

Return(text, levels) ==
    /\ result' = text
    /\ outcome' = "returned"
    /\ pc' = "done"
    /\ log' = Emit(levels)

(* except clause of extract_text_from_pdf: logs, returns "" *)
PdfExcept(levels) ==
    Return(HandlerResult(all_text), levels \o <<"error">>)

(* except clause of extract_text_from_zone: the message is built with
   os.path.basename(pdf_path), which raises TypeError again for the
   argument os.path.normpath rejected *)
ZoneExcept ==
    IF pathStr
    THEN Return(<<>>, <<"error">>)
    ELSE /\ outcome' = "raised"
         /\ pc' = "done"
         /\ UNCHANGED <<result, log>>

----------------------------------------------------------------------------
(* A caller invokes an operation on a constructed instance *)

Call(inst, o, isStr) ==
    /\ pc \in {"idle", "done"}
    /\ inst \in built
    /\ pc' = "start"
    /\ op' = o
    /\ pathStr' = isStr
    /\ i' = 0
    /\ images' = 0
    /\ all_text' = <<>>
    /\ ocrTexts' = <<>>
    /\ result' = <<>>
    /\ outcome' = "none"
    /\ log' = <<>>
    /\ trace' = <<>>
    /\ UNCHANGED <<procVars, tempDirs, tmp>>

----------------------------------------------------------------------------
(* extract_text_from_pdf *)

(* normpath and the existence check *)
PdfStart(exists) ==
    /\ pc = "start" /\ op = "pdf"
    /\ IF ~pathStr
       THEN /\ trace' = Append(trace, Ev("normpath_raise", 0))
            /\ PdfExcept(<<>>)
       ELSE IF ~exists
       THEN /\ trace' = Append(trace, Ev("exists", 0))
            /\ Return(<<>>, NotFoundLog)
       ELSE /\ trace' = Append(trace, Ev("exists", 1))
            /\ pc' = "open"
            /\ UNCHANGED <<result, outcome, log>>
    /\ UNCHANGED <<procVars, tempDirs, tmp, op, pathStr, i, images,
                   all_text, ocrTexts>>

OpenFact(raises, isPdf) ==
    IF raises THEN "open_raise" ELSE IF isPdf THEN "read_pdf" ELSE "read_other"

(* one pass of `for i in range(max_retries)' up to the sleep *)
PdfOpen(raises, isPdf) ==
    /\ pc = "open" /\ op = "pdf"
    /\ trace' = Append(trace, Ev(OpenFact(raises, isPdf), i + 1))
    /\ LET o == OpenOutcome(raises, isPdf) IN
       IF o = "invalid" THEN Return(<<>>, <<"error">>)
       ELSE IF o = "ok"
       THEN /\ pc' = "tempdir"
            /\ UNCHANGED <<result, outcome, log>>
       ELSE IF ShouldWait(i)
       THEN /\ pc' = "sleep"
            /\ log' = Emit(<<"warning">>)
            /\ UNCHANGED <<result, outcome>>
       ELSE Return(<<>>, <<"error">>)
    /\ UNCHANGED <<procVars, tempDirs, tmp, op, pathStr, i, images,
                   all_text, ocrTexts>>

(* time.sleep(1), then the next pass of the loop; a loop that runs out of
   passes falls through to the statements after it *)
PdfSleep ==
    /\ pc = "sleep" /\ op = "pdf"
    /\ trace' = Append(trace, Ev("sleep", SleepSeconds))
    /\ i' = i + 1
    /\ pc' = IF i + 1 < max_retries THEN "open" ELSE "tempdir"
    /\ UNCHANGED <<procVars, tempDirs, tmp, op, pathStr, images,
                   all_text, ocrTexts, result, outcome, log>>

(* mkdtemp: a name no existing directory has *)
FreshDir(dirs) == CHOOSE d \in 1..(Cardinality(dirs) + 1) : d \notin dirs

(* entering `with tempfile.TemporaryDirectory()' and the Poppler check *)
PdfTempDir(created, poppler) ==
    /\ pc = "tempdir" /\ op = "pdf"
    /\ IF ~created
       THEN /\ trace' = Append(trace, Ev("mkdtemp_raise", 0))
            /\ PdfExcept(<<"debug">>)
            /\ UNCHANGED <<tempDirs, tmp>>
       ELSE /\ tmp' = FreshDir(tempDirs)
            /\ trace' = trace \o <<Ev("mkdtemp", tmp'),
                                   Ev("poppler", IF poppler THEN 1 ELSE 0)>>
            /\ IF PopplerMissing(poppler)
               THEN /\ Return(<<>>, <<"debug", "error">>)
                    /\ tempDirs' = TempDirExit(tempDirs \cup {tmp'}, tmp')
               ELSE /\ pc' = "rasterize"
                    /\ log' = Emit(<<"debug">>)
                    /\ tempDirs' = tempDirs \cup {tmp'}
                    /\ UNCHANGED <<result, outcome>>
    /\ UNCHANGED <<procVars, op, pathStr, i, images, all_text,
                   ocrTexts>>

(* convert_from_path: n pages, or n = -1 when it raises *)
PdfRasterize(n) ==
    /\ pc = "rasterize" /\ op = "pdf"
    /\ trace' = Append(trace, Ev("rasterize", n))
    /\ IF n < 0
       THEN /\ PdfExcept(<<>>)
            /\ tempDirs' = TempDirExit(tempDirs, tmp)
            /\ UNCHANGED <<i, images>>
       ELSE IF n = 0
       THEN /\ Return(JoinPages(all_text), <<"info">>)
            /\ tempDirs' = TempDirExit(tempDirs, tmp)
            /\ UNCHANGED <<i, images>>
       ELSE /\ pc' = "ocr"
            /\ i' = 0
            /\ images' = n
            /\ UNCHANGED <<result, outcome, log, tempDirs>>
    /\ UNCHANGED <<procVars, tmp, op, pathStr, all_text, ocrTexts>>

(* one pass of `for i, image in enumerate(images)'; after the last one the
   join, the info entry and the return *)
PdfOcr(raises, text) ==
    /\ pc = "ocr" /\ op = "pdf"
    /\ IF raises
       THEN /\ trace' = Append(trace, EvOcr("ocr_raise", i + 1, tesseract_cmd))
            /\ PdfExcept(<<"debug">>)
            /\ tempDirs' = TempDirExit(tempDirs, tmp)
            /\ UNCHANGED <<i, all_text, ocrTexts>>
       ELSE /\ trace' = Append(trace, EvOcr("ocr", i + 1, tesseract_cmd))
            /\ all_text' = Append(all_text, PageBlock(i, text))
            /\ ocrTexts' = Append(ocrTexts, text)
            /\ i' = i + 1
            /\ IF i + 1 = images
               THEN /\ Return(JoinPages(all_text'), <<"debug", "info">>)
                    /\ tempDirs' = TempDirExit(tempDirs, tmp)
               ELSE /\ log' = Emit(<<"debug">>)
                    /\ UNCHANGED <<pc, result, outcome, tempDirs>>
    /\ UNCHANGED <<procVars, tmp, op, pathStr, images>>

----------------------------------------------------------------------------
(* extract_text_from_zone *)

ZoneStart(exists) ==
    /\ pc = "start" /\ op = "zone"
    /\ IF ~pathStr
       THEN /\ trace' = Append(trace, Ev("normpath_raise", 0))
            /\ ZoneExcept
       ELSE IF ~exists
       THEN /\ trace' = Append(trace, Ev("exists", 0))
            /\ Return(<<>>, ZoneNotFoundLog)
       ELSE /\ trace' = Append(trace, Ev("exists", 1))
            /\ pc' = "zrasterize"
            /\ log' = Emit(<<"debug">>)
            /\ UNCHANGED <<result, outcome>>
    /\ UNCHANGED <<procVars, tempDirs, tmp, op, pathStr, i, images,
                   all_text, ocrTexts>>

(* convert_from_path of the one page: n images, or n = -1 when it raises *)
ZoneRasterize(n) ==
    /\ pc = "zrasterize" /\ op = "zone"
    /\ trace' = Append(trace, Ev("rasterize", n))
    /\ IF n < 0 THEN ZoneExcept /\ UNCHANGED images
       ELSE IF n = 0 THEN Return(<<>>, <<"warning">>) /\ UNCHANGED images
       ELSE /\ pc' = "zocr"
            /\ images' = n
            /\ UNCHANGED <<result, outcome, log>>
    /\ UNCHANGED <<procVars, tempDirs, tmp, op, pathStr, i, all_text,
                   ocrTexts>>

(* crop, grayscale, image_to_string, strip *)
ZoneOcr(fails, text) ==
    /\ pc = "zocr" /\ op = "zone"
    /\ IF fails = "crop"
       THEN /\ trace' = Append(trace, Ev("crop_raise", 1))
            /\ ZoneExcept
            /\ UNCHANGED ocrTexts
       ELSE IF fails = "ocr"
       THEN /\ trace' = Append(trace, EvOcr("ocr_raise", 1, tesseract_cmd))
            /\ ZoneExcept
            /\ UNCHANGED ocrTexts
       ELSE /\ trace' = Append(trace, EvOcr("ocr", 1, tesseract_cmd))
            /\ ocrTexts' = Append(ocrTexts, text)
            /\ Return(Strip(text), <<"debug">>)
    /\ UNCHANGED <<procVars, tempDirs, tmp, op, pathStr, i, images,
                   all_text>>

----------------------------------------------------------------------------
(* The process *)

Init ==
    /\ candExists \in SUBSET {tesseract_paths[k] : k \in 1..Len(tesseract_paths)}
    /\ tesseract_cmd = DefaultCmd
    /\ built = {}
    /\ setupLog = "none"
    /\ tempDirs = {}
    /\ tmp = 0
    /\ pc = "idle"
    /\ op = "none"
    /\ pathStr = TRUE
    /\ i = 0
    /\ images = 0
    /\ all_text = <<>>
    /\ ocrTexts = <<>>
    /\ result = <<>>
    /\ outcome = "none"
    /\ log = <<>>
    /\ trace = <<>>

Next ==
    \/ \E inst \in Instances : Construct(inst)
    \/ \E p \in {tesseract_paths[k] : k \in 1..Len(tesseract_paths)} : EnvInstall(p)
    \/ \E inst \in Instances, o \in {"pdf", "zone"}, isStr \in BOOLEAN :
          Call(inst, o, isStr)
    \/ \E exists \in BOOLEAN : PdfStart(exists)
    \/ \E raises \in BOOLEAN, isPdf \in BOOLEAN : PdfOpen(raises, isPdf)
    \/ PdfSleep
    \/ \E created \in BOOLEAN, poppler \in BOOLEAN : PdfTempDir(created, poppler)
    \/ \E n \in (0 - 1)..MaxPages : PdfRasterize(n)
    \/ \E raises \in BOOLEAN, text \in OcrOutputs : PdfOcr(raises, text)
    \/ \E exists \in BOOLEAN : ZoneStart(exists)
    \/ \E n \in (0 - 1)..1 : ZoneRasterize(n)
    \/ \E fails \in {"crop", "ocr", "no"}, text \in OcrOutputs : ZoneOcr(fails, text)

Spec == Init /\ [][Next]_vars

----------------------------------------------------------------------------
(* Reading the trace and the log *)

Idx(e) == { j \in 1..Len(trace) : trace[j].ev = e }

Count(e) == Cardinality(Idx(e))

Has(event) == \E j \in 1..Len(trace) : trace[j] = event

OpenEvs == {"open_raise", "read_pdf", "read_other"}

OpenIdx == { j \in 1..Len(trace) : trace[j].ev \in OpenEvs }

RaiseEvs == {"normpath_raise", "mkdtemp_raise", "ocr_raise", "crop_raise"}

Logged(levels) == \E j \in 1..Len(log) : log[j] \in levels

ErrorCount == Cardinality({ j \in 1..Len(log) : log[j] = "error" })

ReturnedEmpty == pc = "done" /\ outcome = "returned" /\ result = <<>>

----------------------------------------------------------------------------
(* C1: both operations always end by returning a string; no exception
   reaches the caller, whatever the input and whatever fails. *)
C1_NeverRaises == outcome # "raised"

(* C2: a path that does not exist at the existence check makes either
   operation return "" with exactly one error-level entry, and the check is
   the only thing the call did: no open, no pause, no temporary directory,
   no rasterizer, no OCR. *)
C2_MissingFile ==
    Has(Ev("exists", 0)) =>
        /\ ReturnedEmpty
        /\ ErrorCount = 1
        /\ trace = <<Ev("exists", 0)>>
        /\ tempDirs = {}

C2_Witness ==
    /\ op = "zone" /\ pc = "done" /\ trace = <<Ev("exists", 0)>>
    /\ log = <<"error">>

(* C3: in extract_text_from_pdf a header other than %PDF ends the call at
   once with "": it is the last thing the call did (no further attempt, no
   pause, no rasterization); and a call that never read %PDF returns ""
   after at most 3 open attempts. *)
C3_SignatureFatal ==
    op = "pdf" =>
        /\ \A j \in Idx("read_other") : j = Len(trace) /\ ReturnedEmpty
        /\ Cardinality(OpenIdx) <= 3
        /\ (pc = "done" /\ Idx("read_pdf") = {}) =>
               (ReturnedEmpty /\ Idx("rasterize") = {})

C3_Witness ==
    /\ op = "pdf" /\ pc = "done" /\ result = <<>>
    /\ Len(trace) = 6
    /\ trace[2].ev = "open_raise" /\ trace[4].ev = "open_raise"
    /\ trace[6] = Ev("read_other", 3)

(* C4: extract_text_from_pdf makes at most 3 open attempts; every pause is
   of 1 second, follows an attempt that raised and precedes the next
   attempt, and consecutive attempts are separated by exactly one pause; a
   valid header at attempt k lets the call go on after exactly k-1 pauses;
   three raising attempts end the call with "" after exactly 2 pauses, with
   no temporary directory and no rasterization. *)
C4_Retries ==
    op = "pdf" =>
        /\ Cardinality(OpenIdx) <= 3
        /\ \A j \in OpenIdx :
               /\ trace[j].arg = Cardinality({ m \in OpenIdx : m <= j })
               /\ trace[j].arg > 1 =>
                      (trace[j - 1].ev = "sleep" /\ (j - 2) \in OpenIdx)
        /\ \A j \in Idx("sleep") :
               /\ trace[j].arg = 1
               /\ j > 1 /\ trace[j - 1].ev = "open_raise"
               /\ j < Len(trace) => (j + 1) \in OpenIdx
        /\ \A j \in Idx("read_pdf") :
               /\ Count("sleep") = trace[j].arg - 1
               /\ pc \notin {"open", "sleep"}
        /\ Idx("mkdtemp") # {} => Idx("read_pdf") # {}
        /\ Count("open_raise") = 3 =>
               /\ ReturnedEmpty
               /\ Count("sleep") = 2
               /\ Idx("mkdtemp") = {} /\ Idx("rasterize") = {}
               /\ tempDirs = {}

C4_Witness ==
    /\ op = "pdf" /\ pc = "rasterize"
    /\ Has(Ev("read_pdf", 3)) /\ Count("sleep") = 2

(* C5: a temporary directory exists only while the call that created it is
   running, it is created before that call uses the rasterizer, and it is
   gone when the call has ended, however it ended. *)
C5_TempScoped ==
    /\ \A id \in tempDirs : id = tmp /\ pc \in {"rasterize", "ocr"}
    /\ pc \in {"idle", "start", "done"} => tempDirs = {}
    /\ op = "pdf" =>
           \A r \in Idx("rasterize") : \E m \in Idx("mkdtemp") : m < r
    /\ \A m \in Idx("mkdtemp") :
           trace[m].arg = tmp /\ (pc # "done" => tmp \in tempDirs)

C5_Witness ==
    /\ op = "pdf" /\ pc = "done"
    /\ Idx("mkdtemp") # {} /\ Idx("ocr_raise") # {}
    /\ tempDirs = {}

----------------------------------------------------------------------------
(* The page delimiters, written out *)

MarkerSeite(n) ==
    <<"-", "-", "-", " ", "S", "e", "i", "t", "e", " ", DigitChars[n + 1],
      " ", "-", "-", "-">>

MarkerPage(n) ==
    <<"-", "-", "-", " ", "P", "a", "g", "e", " ", DigitChars[n + 1],
      " ", "-", "-", "-">>

(* where `pat' occurs in s *)
Occ(pat, s) ==
    { j \in 1..(Len(s) - Len(pat) + 1) : SubSeq(s, j, j + Len(pat) - 1) = pat }

RECURSIVE BlockStart(_, _)
(* index in the result at which the block of page p starts: each earlier
   block is a marker, a newline, the page's text and the blank line *)
BlockStart(M(_), p) ==
    IF p = 1 THEN 1
    ELSE BlockStart(M, p - 1) + Len(M(p - 1)) + 1 + Len(ocrTexts[p - 1]) + 2

(* the result is N blocks in page order: marker p, a newline, the OCR text
   of page p, and a blank line between consecutive blocks; nothing else;
   each marker occurs exactly once *)
DocShape(M(_)) ==
    LET N == images IN
    /\ Len(ocrTexts) = N
    /\ Len(result) = BlockStart(M, N) + Len(M(N)) + Len(ocrTexts[N])
    /\ \A p \in 1..N :
          LET b == BlockStart(M, p)
              t == b + Len(M(p)) + 1
          IN /\ SubSeq(result, b, b + Len(M(p)) - 1) = M(p)
             /\ result[t - 1] = "\n"
             /\ SubSeq(result, t, t + Len(ocrTexts[p]) - 1) = ocrTexts[p]
             /\ p < N => SubSeq(result, t + Len(ocrTexts[p]),
                                t + Len(ocrTexts[p]) + 1) = <<"\n", "\n">>
             /\ Occ(M(p), result) = {b}
    /\ \A p \in (N + 1)..9 : Occ(M(p), result) = {}
    /\ Occ(M(0), result) = {}

(* a call of extract_text_from_pdf that rasterized to N >= 1 pages and whose
   OCR succeeded on each has returned *)
PdfSucceeded ==
    /\ op = "pdf" /\ pc = "done" /\ outcome = "returned"
    /\ images >= 1 /\ Count("ocr") = images /\ Idx("ocr_raise") = {}

(* C6 as stated, with the delimiter "--- Page N ---": the result of a
   successful N-page extraction is N delimited blocks, numbered 1..N in
   order, each delimiter right before its page's text, blocks separated by
   a blank line. *)
C6_PageDelimiters == PdfSucceeded => DocShape(MarkerPage)

(* C6 with the delimiter the code writes, "--- Seite N ---": the result of
   a successful N-page extraction is exactly N delimited blocks, numbered
   1..N in order, each delimiter right before its page's text, blocks
   separated by a blank line. *)
C6_SeiteDelimiters == PdfSucceeded => DocShape(MarkerSeite)

C6_Witness ==
    /\ PdfSucceeded /\ images = 2
    /\ ocrTexts = << <<"a">>, <<" ", "b", "\n">> >>

(* C7: once an instance exists, the engine path its calls use never changes
   again, also when further instances are constructed. *)
C7_WriteOnce ==
    [][built # {} => tesseract_cmd' = tesseract_cmd]_vars

(* C8: in extract_text_from_pdf a missing Poppler directory ends the call
   with an error entry and "", with no rasterization and no OCR; the
   rasterizer runs at most once, and only after the file was found, then a
   %PDF header was read, then the Poppler directory was found. *)
C8_PopplerGate ==
    op = "pdf" =>
        /\ Count("rasterize") <= 1
        /\ \A r \in Idx("rasterize") :
               \E a, b, c \in 1..Len(trace) :
                   /\ a < b /\ b < c /\ c < r
                   /\ trace[a] = Ev("exists", 1)
                   /\ trace[b].ev = "read_pdf"
                   /\ trace[c] = Ev("poppler", 1)
        /\ \A j \in 1..Len(trace) :
               trace[j] = Ev("poppler", 0) =>
                   /\ j = Len(trace)
                   /\ ReturnedEmpty
                   /\ log[Len(log)] = "error"
                   /\ Idx("rasterize") = {} /\ Idx("ocr") = {}

C8_Witness ==
    /\ op = "pdf" /\ pc = "done" /\ Has(Ev("poppler", 0))
    /\ Has(Ev("read_pdf", 2))

(* the failures of the taxonomy, as the trace shows them *)
FailureCause ==
    \/ Has(Ev("exists", 0))
    \/ Idx("read_other") # {}
    \/ Count("open_raise") = 3
    \/ Has(Ev("poppler", 0))
    \/ Has(Ev("rasterize", 0))
    \/ Has(Ev("rasterize", 0 - 1))
    \/ \E j \in 1..Len(trace) : trace[j].ev \in RaiseEvs

(* C9: when an operation returns "" because of a missing file, a bad
   signature, an unreadable file, a missing Poppler directory, an empty
   page set or an exception, that call has logged at least one warning or
   error. *)
C9_FailuresLogged ==
    (ReturnedEmpty /\ FailureCause) => Logged({"warning", "error"})

(* C10: extract_text_from_pdf runs OCR only after rasterization returned,
   once per page, in page order 1, 2, ...; when rasterization or the OCR of
   a page raises, that is the last thing the call did and it returns "",
   not the text of the pages before; a call that ends returns either "" or
   the text of all pages. *)
C10_AllOrNothing ==
    op = "pdf" =>
        /\ \A j \in Idx("ocr") \cup Idx("ocr_raise") :
               /\ \E r \in Idx("rasterize") : r < j /\ trace[j].arg <= trace[r].arg
               /\ trace[j].arg = 1 + Cardinality({ m \in Idx("ocr") : m < j })
               /\ \A m \in Idx("ocr_raise") : m >= j
        /\ \A j \in 1..Len(trace) :
               (trace[j].ev = "ocr_raise" \/ trace[j] = Ev("rasterize", 0 - 1)) =>
                   (j = Len(trace) /\ ReturnedEmpty)
        /\ pc = "done" =>
               \/ result = <<>> /\ (Idx("ocr_raise") # {} \/ Count("ocr") = 0)
               \/ PdfSucceeded

C10_Witness ==
    /\ op = "pdf" /\ pc = "done" /\ result = <<>>
    /\ trace[Len(trace)].ev = "ocr_raise" /\ trace[Len(trace)].arg = 2
    /\ Len(all_text) = 1

====
